---------------------------- MODULE Spec2Model ----------------------------
(***************************************************************************)
(* A model of Open3D's NumPy .npy codec, cpp/open3d/core/NumpyIO.h:        *)
(* CreateNumpyHeader, NumpyArray (constructors, GetDtype, NumBytes, Load,  *)
(* ParseNumpyHeader) and NumpySave.                                        *)
(*                                                                         *)
(* Bytes are one-character strings ("\n" is the newline, "#147" and the    *)
(* like are the non-printable bytes).  A size_t is a little-endian         *)
(* sequence of 8 limbs in 0..255, an int a TLA+ integer in                 *)
(* -2^31..2^31-1, so that every conversion and product wraps exactly where *)
(* the C++ one does.  A payload is run-length encoded: `len` bytes, all    *)
(* equal to `fill`.                                                        *)
(***************************************************************************)
EXTENDS Integers, Sequences, FiniteSets, TLC

VARIABLES
    ndebug,     \* the build: TRUE when assert() is compiled out (NDEBUG)
    fs,         \* the file system: path -> file, or NoFile
    written,    \* history: the arguments of the NumpySave that wrote fs[path]
    arrs,       \* the NumpyArray objects the caller holds, by slot
    heap,       \* the std::vector<char> buffers the data_holders share
    last        \* what the last call did and returned

vars == <<ndebug, fs, written, arrs, heap, last>>

(***************************************************************************)
(* Bounds of the model.                                                    *)
(***************************************************************************)
MaxRank == 2        \* the longest shape NumpySave and the constructor get
MaxArrays == 2      \* the NumpyArray objects alive at once

(***************************************************************************)
(* Fixed-width arithmetic.                                                 *)
(***************************************************************************)
SizeTBytes == 8     \* sizeof(size_t)
MathBytes == 2 * SizeTBytes     \* limbs of the products that must not wrap
IntMax == 2147483647

\* Limb i (1 = lowest) of the two's complement of the int n, sign-extended.
LimbOf(n, i) ==
    IF i <= 4 THEN (n \div (256 ^ (i - 1))) % 256
    ELSE IF n < 0 THEN 255 ELSE 0

\* The conversion int -> unsigned integer of w bytes.
FromInt(n, w) == [i \in 1..w |-> LimbOf(n, i)]

\* static_cast<size_t>(n) for an int n.
SizeT(n) == FromInt(n, SizeTBytes)

At(a, i) == IF i <= Len(a) THEN a[i] ELSE 0

\* a as an unsigned integer of w bytes: truncated or zero-extended.
Resize(a, w) == [i \in 1..w |-> At(a, i)]

IsZero(a) == \A i \in 1..Len(a) : a[i] = 0

RECURSIVE ColSum(_, _, _, _)
ColSum(a, b, k, i) ==
    IF i > k THEN 0 ELSE At(a, i) * At(b, k + 1 - i) + ColSum(a, b, k, i + 1)

RECURSIVE MulCols(_, _, _, _, _)
MulCols(a, b, w, k, carry) ==
    IF k > w THEN <<>>
    ELSE LET s == carry + ColSum(a, b, k, 1)
         IN  <<s % 256>> \o MulCols(a, b, w, k + 1, s \div 256)

\* a * b modulo 256^w
Mul(a, b, w) == MulCols(a, b, w, 1, 0)

\* size_t * size_t
MulSizeT(a, b) == Mul(a, b, SizeTBytes)

RECURSIVE LessFrom(_, _, _)
LessFrom(a, b, i) ==
    IF i = 0 THEN FALSE
    ELSE IF At(a, i) # At(b, i) THEN At(a, i) < At(b, i)
    ELSE LessFrom(a, b, i - 1)

\* a < b as unsigned integers
Less(a, b) == LessFrom(a, b, IF Len(a) > Len(b) THEN Len(a) ELSE Len(b))

\* a = b as unsigned integers of possibly different widths
SameValue(a, b) == ~Less(a, b) /\ ~Less(b, a)

Min(a, b) == IF Less(b, a) THEN b ELSE a

\* static_cast<int>(a) for a size_t a: the low 32 bits, as two's complement.
ToInt32(a) ==
    a[1] + 256 * a[2] + 65536 * a[3]
        + 16777216 * (IF a[4] >= 128 THEN a[4] - 256 ELSE a[4])

\* <<quotient, remainder>> of a by 10, by long division from the top limb.
RECURSIVE DivMod10From(_, _, _)
DivMod10From(a, i, rem) ==
    IF i = 0 THEN <<[j \in 1..0 |-> 0], rem>>
    ELSE LET cur == rem * 256 + a[i]
             rest == DivMod10From(a, i - 1, cur % 10)
         IN  <<rest[1] \o <<cur \div 10>>, rest[2]>>

DivMod10(a) == DivMod10From(a, Len(a), 0)

DigitChar == <<"0", "1", "2", "3", "4", "5", "6", "7", "8", "9">>

IsDigit(c) == \E d \in 1..10 : DigitChar[d] = c

DigitVal(c) == (CHOOSE d \in 1..10 : DigitChar[d] = c) - 1

\* The decimal text of an unsigned integer: operator<< and fmt's "{}".
RECURSIVE Decimal(_)
Decimal(a) ==
    LET qr == DivMod10(a)
    IN  IF IsZero(qr[1]) THEN <<DigitChar[qr[2] + 1]>>
        ELSE Decimal(qr[1]) \o <<DigitChar[qr[2] + 1]>>

RECURSIVE ProductFrom(_, _, _, _)
ProductFrom(shape, i, acc, w) ==
    IF i > Len(shape) THEN acc
    ELSE ProductFrom(shape, i + 1, Mul(acc, shape[i], w), w)

\* The product of a shape's dimensions, without wrapping (1 for rank 0).
MathProduct(shape) == ProductFrom(shape, 1, FromInt(1, MathBytes), MathBytes)

(***************************************************************************)
(* Bytes and text.                                                         *)
(***************************************************************************)
\* The characters of codes 32..126, in order (the double quote, the
\* backslash and the grave accent, which no header holds, by their codes).
Printable ==
    <<" ", "!", "#34", "#", "$", "%", "&", "'", "(", ")", "*", "+", ",",
      "-", ".", "/", "0", "1", "2", "3", "4", "5", "6", "7", "8", "9", ":",
      ";", "<", "=", ">", "?", "@", "A", "B", "C", "D", "E", "F", "G", "H",
      "I", "J", "K", "L", "M", "N", "O", "P", "Q", "R", "S", "T", "U", "V",
      "W", "X", "Y", "Z", "[", "#92", "]", "^", "_", "#96", "a", "b", "c",
      "d", "e", "f", "g", "h", "i", "j", "k", "l", "m", "n", "o", "p", "q",
      "r", "s", "t", "u", "v", "w", "x", "y", "z", "{", "|", "}", "~">>

\* The byte of value n in 0..255.
ByteChar(n) ==
    IF n = 10 THEN "\n"
    ELSE IF n >= 32 /\ n <= 126 THEN Printable[n - 31]
    ELSE "#" \o ToString(n)

NPos == -1      \* std::string::npos

\* s[i], 0-based as in C++
CharAt(s, i) == s[i + 1]

IsPrefixAt(s, pat, i) ==
    /\ i + Len(pat) <= Len(s)
    /\ \A k \in 1..Len(pat) : s[i + k] = pat[k]

\* std::string::find(pat): the first 0-based position of pat in s, or npos
Find(s, pat) ==
    IF \E i \in 0..Len(s) : IsPrefixAt(s, pat, i)
    THEN CHOOSE i \in 0..Len(s) :
            /\ IsPrefixAt(s, pat, i)
            /\ \A j \in 0..(i - 1) : ~IsPrefixAt(s, pat, j)
    ELSE NPos

\* std::string::substr(pos, n) for pos <= size(); n = NPos is "to the end"
Substr(s, pos, n) ==
    LET avail == Len(s) - pos
        cnt == IF n = NPos \/ n > avail THEN avail ELSE n
    IN  SubSeq(s, pos + 1, pos + cnt)

K_fortran_order ==
    <<"f", "o", "r", "t", "r", "a", "n", "_", "o", "r", "d", "e", "r">>
K_descr ==
    <<"d", "e", "s", "c", "r">>
K_True ==
    <<"T", "r", "u", "e">>
DictHead ==
    <<"{", "'", "d", "e", "s", "c", "r", "'", ":", " ", "'">>
DictMiddle ==
    <<"'", ",", " ", "'", "f", "o", "r", "t", "r", "a", "n", "_", "o", "r",
      "d", "e", "r", "'", ":", " ", "F", "a", "l", "s", "e", ",", " ", "'",
      "s", "h", "a", "p", "e", "'", ":", " ">>
DictTail ==
    <<",", " ", "}">>

(***************************************************************************)
(* Element types.                                                          *)
(***************************************************************************)
\* The element types of the mapping table.
SupportedDtypes ==
    {"Float32", "Float64", "Int32", "Int64", "UInt8", "UInt16", "Bool"}

\* Element types a caller can build with Dtype's constructor besides those.
OtherDtypes == {"Undefined", "Float16"}

AllDtypes == SupportedDtypes \cup OtherDtypes

\* Dtype::ByteSize()
ByteSize(dtype) ==
    CASE dtype = "Float32" -> 4
      [] dtype = "Float64" -> 8
      [] dtype = "Int32" -> 4
      [] dtype = "Int64" -> 8
      [] dtype = "UInt8" -> 1
      [] dtype = "UInt16" -> 2
      [] dtype = "Bool" -> 1
      [] dtype = "Float16" -> 2
      [] OTHER -> 1

\* What utility::LogError throws, by message.
E_UnsupportedDtype == "LogError: Unsupported dtype"
E_UnsupportedNumpyType == "LogError: Unsupported Numpy type"
E_UnableToOpen == "LogError: NumpyLoad: Unable to open file"
E_HeaderFread == "LogError: ParseNumpyHeader: failed fread"
E_NoFortranOrder == "LogError: failed to find header keyword: 'fortran_order'"
E_NoParens == "LogError: failed to find header keyword: '(' or ')'"
E_NoDescr == "LogError: failed to find header keyword: 'descr'"
E_PayloadFread == "LogError: LoadTheNumpyFile: failed fread"
\* What the standard library throws.
E_SubstrRange == "std::out_of_range: basic_string::substr"
E_StoiRange == "std::out_of_range: stoi"
E_LengthError == "std::length_error: vector"
\* A failed assert() of a build without NDEBUG: abort().
A_Newline == "abort: assert(header ends with a newline)"
A_LittleEndian == "abort: assert(littleEndian)"
\* Undefined behaviour: the outcome is the build's, and no caller may count on it.
U_NullString == "undefined: std::string(nullptr)"
U_HeaderIndex == "undefined: header[loc1] past the end"
U_Atoi == "undefined: atoi out of range"
U_NullFile == "undefined: stdio call on a null FILE*"
U_NullHolder == "undefined: null data_holder dereferenced"
U_Overread == "undefined: fwrite reads past the end of data"
U_TypeUninit == "undefined: read of uninitialized type_"
U_EmptyIndex == "undefined: operator[] on an empty vector"

\* This host's byte order (x86-64, AArch64: little-endian).
HostIsLittleEndian == TRUE

BigEndianChar == IF HostIsLittleEndian THEN "<" ELSE ">"

DtypeToChar(dtype) ==
    IF dtype = "Float32" THEN "f"
    ELSE IF dtype = "Float64" THEN "f"
    ELSE IF dtype = "Int32" THEN "i"
    ELSE IF dtype = "Int64" THEN "i"
    ELSE IF dtype = "UInt8" THEN "u"
    ELSE IF dtype = "UInt16" THEN "u"
    ELSE IF dtype = "Bool" THEN "b"
    ELSE E_UnsupportedDtype

\* ToByteString((uint16_t)n): the two bytes of n % 2^16 in host order.
ToByteString16(n) ==
    LET u == n % 65536
    IN  IF HostIsLittleEndian
        THEN <<ByteChar(u % 256), ByteChar(u \div 256)>>
        ELSE <<ByteChar(u \div 256), ByteChar(u % 256)>>

(***************************************************************************)
(* CreateNumpyHeader                                                       *)
(***************************************************************************)
PreambleLen == 10
PadModulus == 16

RECURSIVE JoinDims(_, _)
JoinDims(shape, i) ==
    IF i > Len(shape) THEN <<>>
    ELSE <<",", " ">> \o Decimal(shape[i]) \o JoinDims(shape, i + 1)

\* {} -> "()", {1} -> "(1,)", {1, 2} -> "(1, 2)"
ShapeText(shape) ==
    IF Len(shape) = 0 THEN <<"(", ")">>
    ELSE IF Len(shape) = 1 THEN <<"(">> \o Decimal(shape[1]) \o <<",", ")">>
    ELSE <<"(">> \o Decimal(shape[1]) \o JoinDims(shape, 2)
            \o (IF Len(shape) = 1 THEN <<",">> ELSE <<>>) \o <<")">>

SpacePaddingNoNewline(dictSize) ==
    PadModulus - ((PreambleLen + dictSize) % PadModulus)

\* The spaces that pad a dict of dictSize characters, before its newline.
SpacePadding(dictSize) ==
    PadModulus - ((PreambleLen + dictSize) % PadModulus) - 1

Spaces(n) == [i \in 1..n |-> " "]

\* The dict of a header, padded and ended by its newline.
HeaderDict(shape, dtype) ==
    LET dict == DictHead \o <<BigEndianChar, DtypeToChar(dtype)>>
                    \o Decimal(SizeT(ByteSize(dtype))) \o DictMiddle
                    \o ShapeText(shape) \o DictTail
    IN  dict \o Spaces(SpacePadding(Len(dict))) \o <<"\n">>

Magic == <<ByteChar(147), "N", "U", "M", "P", "Y", ByteChar(1), ByteChar(0)>>

\* [thrown, bytes]: the header, or what DtypeToChar threw.
CreateNumpyHeader(shape, dtype) ==
    IF DtypeToChar(dtype) = E_UnsupportedDtype
    THEN [thrown |-> E_UnsupportedDtype, bytes |-> <<>>]
    ELSE LET dict == HeaderDict(shape, dtype)
         IN  [thrown |-> "",
              bytes |-> Magic \o ToByteString16(Len(dict)) \o dict]

(***************************************************************************)
(* NumpyArray                                                              *)
(***************************************************************************)
Zero == SizeT(0)

\* A std::vector<char>: `size` bytes, the first `nfill` equal to `fill`, the
\* others 0.
ZeroBuffer(n) == [size |-> n, nfill |-> Zero, fill |-> 0]

NoBuffer == [size |-> Zero, nfill |-> Zero, fill |-> -1]

RECURSIVE NumElementsFrom(_, _, _)
NumElementsFrom(shape, i, acc) ==
    IF i > Len(shape) THEN acc
    ELSE NumElementsFrom(shape, i + 1, MulSizeT(acc, shape[i]))

\* num_elements_ = 1; for (...) num_elements_ *= shape_[i];
NumElements(shape) == NumElementsFrom(shape, 1, SizeT(1))

\* std::vector<char>(n) throws std::length_error above max_size() = 2^63 - 1.
\* Memory is taken to suffice below that.
ExceedsMaxSize(n) == n[SizeTBytes] >= 128

\* NumpyArray(shape, type, word_size, fortran_order): what the constructor
\* threw, the members it set, and the vector its data_holder owns.
NumpyArray(shape, type, word_size, fortran_order) ==
    LET n == MulSizeT(NumElements(shape), word_size)
    IN  [thrown |-> IF ExceedsMaxSize(n) THEN E_LengthError ELSE "",
         members |-> [shape_ |-> shape,
                      type_ |-> type,
                      word_size_ |-> word_size,
                      fortran_order_ |-> fortran_order,
                      num_elements_ |-> NumElements(shape)],
         buffer |-> IF ExceedsMaxSize(n) THEN NoBuffer ELSE ZeroBuffer(n)]

\* The char an uninitialized type_ happens to hold.
Indeterminate == "?"

\* NumpyArray(): shape_(0), word_size_(0), fortran_order_(0),
\* num_elements_(0); data_holder stays null and type_ is not initialized.
DefaultMembers ==
    [shape_ |-> <<>>,
     type_ |-> Indeterminate,
     word_size_ |-> Zero,
     fortran_order_ |-> FALSE,
     num_elements_ |-> Zero]

GetDtypeSwapped(type, word_size) ==
    IF type = "f" /\ word_size = SizeT(4) THEN "Float32"
    ELSE IF type = "f" /\ word_size = SizeT(8) THEN "Float64"
    ELSE IF type = "i" /\ word_size = SizeT(4) THEN "Int32"
    ELSE IF type = "i" /\ word_size = SizeT(8) THEN "Int64"
    ELSE IF type = "u" /\ word_size = SizeT(1) THEN "UInt16"
    ELSE IF type = "u" /\ word_size = SizeT(2) THEN "UInt8"
    ELSE IF type = "b" THEN "Bool"
    ELSE E_UnsupportedNumpyType

\* NumpyArray::GetDtype() of type_ and word_size_
GetDtype(type, word_size) ==
    IF type = "f" /\ word_size = SizeT(4) THEN "Float32"
    ELSE IF type = "f" /\ word_size = SizeT(8) THEN "Float64"
    ELSE IF type = "i" /\ word_size = SizeT(4) THEN "Int32"
    ELSE IF type = "i" /\ word_size = SizeT(8) THEN "Int64"
    ELSE IF type = "u" /\ word_size = SizeT(1) THEN "UInt8"
    ELSE IF type = "u" /\ word_size = SizeT(2) THEN "UInt16"
    ELSE IF type = "b" THEN "Bool"
    ELSE E_UnsupportedNumpyType

(***************************************************************************)
(* Files.  A file is the bytes `head` followed by `len` bytes equal to     *)
(* `fill`; the files of the model keep the header line within `head`.      *)
(***************************************************************************)
NoFile == [exists |-> FALSE, head |-> <<>>, len |-> Zero, fill |-> 0]

File(head, len, fill) ==
    [exists |-> TRUE, head |-> head, len |-> len, fill |-> fill]

(***************************************************************************)
(* NumpyArray::ParseNumpyHeader                                            *)
(***************************************************************************)
HeaderReadLen == 11
LineBufferLen == 256
FortranValueOffset == 16
DescrValueOffset == 9

\* fgets(buffer, 256, fp): at most 255 characters, through the first newline.
FGets(rest) ==
    LET nl == Find(rest, <<"\n">>)
        n == IF nl = NPos THEN Len(rest) ELSE nl + 1
    IN  SubSeq(rest, 1, IF n > LineBufferLen - 1 THEN LineBufferLen - 1 ELSE n)

\* The matches of std::regex_search(str, "[0-9][0-9]*"), one after the other.
RECURSIVE DigitRuns(_)
DigitRuns(s) ==
    IF \A i \in 1..Len(s) : ~IsDigit(s[i]) THEN <<>>
    ELSE LET b == CHOOSE i \in 1..Len(s) :
                    IsDigit(s[i]) /\ \A j \in 1..(i - 1) : ~IsDigit(s[j])
             e == CHOOSE i \in b..Len(s) :
                    /\ \A j \in b..i : IsDigit(s[j])
                    /\ (i = Len(s) \/ ~IsDigit(s[i + 1]))
         IN  <<SubSeq(s, b, e)>> \o DigitRuns(SubSeq(s, e + 1, Len(s)))

OutOfRange == -1

\* The value of a run of digits, or OutOfRange above INT_MAX.
RECURSIVE DigitsValue(_, _, _)
DigitsValue(run, i, acc) ==
    IF i > Len(run) THEN acc
    ELSE IF acc > (IntMax - DigitVal(run[i])) \div 10 THEN OutOfRange
    ELSE DigitsValue(run, i + 1, acc * 10 + DigitVal(run[i]))

\* std::stoi of a run of digits: its value, or OutOfRange when it throws.
StoI(run) == DigitsValue(run, 1, 0)

IsSpace(c) == c = " " \/ c = "\n"

RECURSIVE SkipSpaces(_)
SkipSpaces(s) ==
    IF Len(s) > 0 /\ IsSpace(s[1]) THEN SkipSpaces(Tail(s)) ELSE s

LeadingDigits(s) ==
    LET runs == DigitRuns(s)
    IN  IF Len(s) > 0 /\ IsDigit(s[1]) THEN runs[1] ELSE <<>>

\* atoi: [undefined, value].  Blanks, a sign, then digits; no digits is 0, a
\* value no int holds is undefined.
AtoI(s) ==
    LET t == SkipSpaces(s)
        signed == Len(t) > 0 /\ (t[1] = "-" \/ t[1] = "+")
        v == StoI(LeadingDigits(IF signed THEN Tail(t) ELSE t))
    IN  [undefined |-> v = OutOfRange,
         value |-> IF v = OutOfRange THEN 0
                   ELSE IF signed /\ t[1] = "-" THEN 0 - v ELSE v]

\* header[i] for i <= size(): the terminating '\0' at i = size().
CharOrNul(header, i) ==
    IF i = Len(header) THEN ByteChar(0) ELSE CharAt(header, i)

Parsed(thrown, undefined, type, word_size, shape, fortran_order, stdio) ==
    [thrown |-> thrown, undefined |-> undefined, type |-> type,
     word_size |-> word_size, shape |-> shape,
     fortran_order |-> fortran_order, stdio |-> stdio]

ParseStopped(thrown, undefined, stdio) ==
    Parsed(thrown, undefined, Indeterminate, Zero, <<>>, FALSE, stdio)

\* header[loc1] == '<' || header[loc1] == '|'
IsLittleEndianMarker(c) == c = "<" \/ c = "|"

\* The part of ParseNumpyHeader after the fgets, on the line it read.
ParseHeaderLine(header, nd) ==
    LET locF == Find(header, K_fortran_order)
        fortran_order ==
            Substr(header, locF + FortranValueOffset, 4) = K_True
        locL == Find(header, <<"(">>)
        locR == Find(header, <<")">>)
        \* loc2 - loc1 - 1 is a size_t: below zero it wraps to "to the end"
        str_shape ==
            Substr(header, locL + 1,
                   IF locR < locL THEN NPos ELSE locR - locL - 1)
        runs == DigitRuns(str_shape)
        dims == [i \in 1..Len(runs) |-> StoI(runs[i])]
        shape == [i \in 1..Len(runs) |-> SizeT(dims[i])]
        locD == Find(header, K_descr)
        loc1 == locD + DescrValueOffset
        str_ws == Substr(header, loc1 + 2, NPos)
        q == Find(str_ws, <<"'">>)
        ws == AtoI(Substr(str_ws, 0, q))
    IN  IF locF = NPos THEN ParseStopped(E_NoFortranOrder, "", 2)
        ELSE IF locF + FortranValueOffset > Len(header)
        THEN ParseStopped(E_SubstrRange, "", 2)
        ELSE IF locL = NPos \/ locR = NPos THEN ParseStopped(E_NoParens, "", 2)
        ELSE IF \E i \in 1..Len(runs) : dims[i] = OutOfRange
        THEN ParseStopped(E_StoiRange, "", 2)
        ELSE IF locD = NPos THEN ParseStopped(E_NoDescr, "", 2)
        ELSE IF loc1 > Len(header) THEN ParseStopped("", U_HeaderIndex, 2)
        ELSE IF ~nd /\ ~IsLittleEndianMarker(CharOrNul(header, loc1))
        THEN ParseStopped(A_LittleEndian, "", 2)
        ELSE IF loc1 + 1 > Len(header) THEN ParseStopped("", U_HeaderIndex, 2)
        ELSE IF loc1 + 2 > Len(header) THEN ParseStopped(E_SubstrRange, "", 2)
        ELSE IF ws.undefined THEN ParseStopped("", U_Atoi, 2)
        ELSE Parsed("", "", CharOrNul(header, loc1 + 1), SizeT(ws.value),
                    shape, fortran_order, 2)

\* ParseNumpyHeader(fp, ...) on a file whose first bytes are `bytes`, in a
\* build with (nd) or without NDEBUG.
ParseNumpyHeader(bytes, nd) ==
    IF Len(bytes) < HeaderReadLen THEN ParseStopped(E_HeaderFread, "", 1)
    ELSE LET header == FGets(SubSeq(bytes, HeaderReadLen + 1, Len(bytes)))
         IN  IF Len(header) = 0 THEN ParseStopped("", U_NullString, 2)
             ELSE IF ~nd /\ header[Len(header)] # "\n"
             THEN ParseStopped(A_Newline, "", 2)
             ELSE ParseHeaderLine(header, nd)

(***************************************************************************)
(* NumpyArray::Load and NumpySave, as functions of the file.               *)
(***************************************************************************)
Outcome(thrown, undefined, fp, stdio, returned, members, buffer, file) ==
    [thrown |-> thrown, undefined |-> undefined, fp |-> fp, stdio |-> stdio,
     returned |-> returned, members |-> members, buffer |-> buffer,
     file |-> file]

\* NumpyArray::Load on the file `file`.  GetDataPtr takes &(*data_holder)[0]:
\* on an empty vector the behaviour is undefined, the process dies there
\* (crash) or the call goes on.
LoadOutcome(file, nd, crash) ==
    IF ~file.exists
    THEN Outcome(E_UnableToOpen, "", "null", 0, FALSE, DefaultMembers,
                 NoBuffer, file)
    ELSE LET h == ParseNumpyHeader(file.head, nd)
             a == NumpyArray(h.shape, h.type, h.word_size, h.fortran_order)
             nread == Min(a.buffer.size, file.len)
             filled == IF IsZero(nread) THEN a.buffer
                       ELSE [a.buffer EXCEPT !.nfill = nread,
                                             !.fill = file.fill]
         IN  IF h.thrown # "" \/ h.undefined # ""
             THEN Outcome(h.thrown, h.undefined, "open", h.stdio, FALSE,
                          DefaultMembers, NoBuffer, file)
             ELSE IF a.thrown # ""
             THEN Outcome(a.thrown, "", "open", h.stdio, FALSE,
                          DefaultMembers, NoBuffer, file)
             ELSE IF IsZero(a.buffer.size) /\ crash
             THEN Outcome("", U_EmptyIndex, "open", h.stdio, FALSE,
                          DefaultMembers, NoBuffer, file)
             ELSE IF nread # a.buffer.size
             THEN Outcome(E_PayloadFread, "", "open", h.stdio + 1, FALSE,
                          DefaultMembers, NoBuffer, file)
             ELSE Outcome("", IF IsZero(a.buffer.size) THEN U_EmptyIndex
                              ELSE "",
                          "closed", h.stdio + 2, TRUE, a.members, filled, file)

RECURSIVE AccumulateInt(_, _, _)
AccumulateInt(shape, i, acc) ==
    IF i > Len(shape) THEN acc
    ELSE AccumulateInt(shape, i + 1,
                       ToInt32(MulSizeT(SizeT(acc), shape[i])))

\* size_t num_elements = std::accumulate(begin, end, 1, multiplies<size_t>()):
\* the accumulator has the type of the initial value 1, an int.
SaveNumElements(shape) == SizeT(AccumulateInt(shape, 1, 1))

\* The bytes fwrite(data, size, count, fp) asks for.
FwriteRequest(size, count) == MulSizeT(size, count)

\* the "fill" of bytes that are not the caller's
Garbage == 256

\* NumpySave on a path that opens (canOpen) or not, for data of data.len
\* bytes.  `crash`: where the behaviour is undefined, whether the process
\* dies there or the call goes on.
SaveOutcome(canOpen, data, shape, dtype, crash) ==
    LET header == CreateNumpyHeader(shape, dtype)
        request == FwriteRequest(SizeT(ByteSize(dtype)),
                                 SaveNumElements(shape))
        empty == File(<<>>, Zero, 0)
    IN  IF header.thrown # ""
        THEN Outcome(header.thrown, "", IF canOpen THEN "open" ELSE "null", 0,
                     FALSE, DefaultMembers, NoBuffer,
                     IF canOpen THEN empty ELSE NoFile)
        ELSE IF ~canOpen
        THEN Outcome("", U_NullFile, "null", IF crash THEN 1 ELSE 5, ~crash,
                     DefaultMembers, NoBuffer, NoFile)
        ELSE IF Less(data.len, request)
        THEN Outcome("", U_Overread, IF crash THEN "open" ELSE "closed",
                     IF crash THEN 4 ELSE 5, ~crash, DefaultMembers, NoBuffer,
                     IF crash THEN File(header.bytes, data.len, data.fill)
                     ELSE File(header.bytes, request, Garbage))
        ELSE Outcome("", "", "closed", 5, TRUE, DefaultMembers, NoBuffer,
                     File(header.bytes, request,
                          IF IsZero(request) THEN 0 ELSE data.fill))

(***************************************************************************)
(* The inputs of the model.                                                *)
(***************************************************************************)
\* 2^k as a size_t
Pow2(k) ==
    [i \in 1..SizeTBytes |-> IF i = (k \div 8) + 1 THEN 2 ^ (k % 8) ELSE 0]

\* The dimensions of the shapes CreateNumpyHeader is given: of one digit
\* and more, so that every padding from none to 15 spaces is called for, and
\* those whose product or whose own value passes the range of an int.
Dims == {SizeT(0), SizeT(2), SizeT(10), SizeT(100), Pow2(16), Pow2(31)}

RECURSIVE SeqsUpTo(_, _)
SeqsUpTo(S, n) ==
    IF n = 0 THEN {<<>>}
    ELSE LET shorter == SeqsUpTo(S, n - 1)
         IN  shorter \cup
             {Append(s, d) : s \in {t \in shorter : Len(t) = n - 1}, d \in S}

Shapes == SeqsUpTo(Dims, MaxRank)

\* The shapes NumpySave is given.
SaveShapes ==
    {s \in {<<>>, <<SizeT(0)>>, <<SizeT(5)>>, <<SizeT(2), SizeT(3)>>,
            <<SizeT(0), Pow2(31)>>, <<Pow2(31)>>, <<Pow2(16), Pow2(15)>>,
            <<Pow2(16), Pow2(16)>>, <<SizeT(2), SizeT(3), SizeT(5)>>} :
        Len(s) <= MaxRank}

DataByte == 171     \* the value of every byte of the caller's data

\* The bytes a caller holds for an array of this shape and element type.
DataLen(shape, dtype) ==
    Mul(MathProduct(shape), SizeT(ByteSize(dtype)), MathBytes)

\* Such an array exists in memory: it has fewer than 2^63 bytes.
Holdable(shape, dtype) ==
    LET n == DataLen(shape, dtype)
    IN  /\ \A i \in (SizeTBytes + 1)..MathBytes : n[i] = 0
        /\ n[SizeTBytes] < 128

DataOf(shape, dtype) ==
    [len |-> Resize(DataLen(shape, dtype), SizeTBytes), fill |-> DataByte]

ThePath == "a.npy"
Paths == {ThePath, "nodir/a.npy"}

\* fopen(path, "wb") succeeds: the directory of the path exists.
Writable(path) == path = ThePath

\* Files that did not come from NumpySave: a dict of the given items, padded
\* as numpy pads it, behind numpy's preamble.
DescrItem(descr) ==
    <<"'", "d", "e", "s", "c", "r", "'", ":", " ", "'">> \o descr \o <<"'", ",", " ">>

FortranItem(value) ==
    <<"'", "f", "o", "r", "t", "r", "a", "n", "_", "o", "r", "d", "e", "r",
      "'", ":", " ">> \o value \o <<",", " ">>

ShapeItem(text) ==
    <<"'", "s", "h", "a", "p", "e", "'", ":", " ">> \o text \o <<",", " ">>

T_False ==
    <<"F", "a", "l", "s", "e">>
T_2_3 ==
    <<"(", "2", ",", " ", "3", ")">>
T_Empty ==
    <<"(", ")">>
T_Wrap64 ==
    <<"(", "6", "5", "5", "3", "6", ",", " ", "6", "5", "5", "3", "6", ",",
      " ", "6", "5", "5", "3", "6", ",", " ", "6", "5", "5", "3", "6", ")">>
T_Reversed ==
    <<")", "2", ",", " ", "3", "(">>
T_NoParens ==
    <<"2", ",", " ", "3">>
T_NoClose ==
    <<"(", "2", ",", " ", "3">>
T_Huge ==
    <<"(", "9", "9", "9", "9", "9", "9", "9", "9", "9", "9", "9", ",", ")">>

ForeignHead(items, newline) ==
    LET dict == <<"{">> \o items \o <<"}">>
        padded == dict \o Spaces(SpacePadding(Len(dict)))
                       \o (IF newline THEN <<"\n">> ELSE <<>>)
    IN  Magic \o ToByteString16(Len(padded)) \o padded

Items(descr, fortran, shape) ==
    DescrItem(descr) \o FortranItem(fortran) \o ShapeItem(shape)

\* Heads whose line is as numpy writes it, for little-endian data.
SoundHeads ==
    {ForeignHead(Items(d, T_False, T_2_3), TRUE) :
        d \in {<<"<", "f", "4">>, <<"|", "u", "1">>}}

\* Heads that differ from those in one place.
OddHeads ==
    {ForeignHead(Items(d, T_False, T_2_3), TRUE) :
        d \in {<<">", "f", "4">>, <<"=", "i", "4">>, <<"<", "f", "2">>}}
    \cup
    {ForeignHead(Items(<<"<", "f", "4">>, K_True, T_2_3), TRUE)}
    \cup
    {ForeignHead(Items(<<"<", "f", "4">>, T_False, t), TRUE) :
        t \in {T_Empty, T_Wrap64, T_Reversed, T_NoParens, T_NoClose, T_Huge}}
    \cup
    {ForeignHead(FortranItem(T_False) \o ShapeItem(T_2_3), TRUE),
     ForeignHead(DescrItem(<<"<", "f", "4">>) \o ShapeItem(T_2_3), TRUE),
     ForeignHead(FortranItem(T_False) \o ShapeItem(T_Huge), TRUE)}

\* Heads that end before their line does; no payload follows such a head.
CutHeads ==
    {ForeignHead(Items(<<"<", "f", "4">>, T_False, T_Empty), FALSE),
     SubSeq(Magic, 1, 5),
     Magic \o ToByteString16(0) \o <<"{">>}

\* the bytes of a (2, 3) array of 4-byte elements
FullLen == 2 * 3 * 4

PayloadLens == {SizeT(0), SizeT(FullLen - 1), SizeT(FullLen)}

ForeignFiles ==
    {File(h, n, IF IsZero(n) THEN 0 ELSE DataByte) :
        h \in SoundHeads, n \in PayloadLens}
    \cup {File(h, SizeT(FullLen), DataByte) : h \in OddHeads}
    \cup {File(h, Zero, 0) : h \in CutHeads}

\* The (type, word_size) pairs and shapes the constructor is called with.
TypeChars == {"f", "i", "u", "b", "c"}
WordSizes == {SizeT(0), SizeT(1), SizeT(2), SizeT(4), SizeT(8), SizeT(16)}

(***************************************************************************)
(* The state.                                                              *)
(***************************************************************************)
NotWritten ==
    [valid |-> FALSE, data |-> [len |-> Zero, fill |-> 0], shape |-> <<>>,
     dtype |-> "Undefined"]

NoObject == [live |-> FALSE, members |-> DefaultMembers, data_holder |-> 0]

Slots == 1..MaxArrays

NoCall ==
    [op |-> "none", path |-> "", slot |-> 0, thrown |-> "", undefined |-> "",
     fp |-> "none", stdio |-> 0, returned |-> FALSE,
     members |-> DefaultMembers, buffer |-> NoBuffer,
     dtype |-> "", type |-> "", word_size |-> Zero, bytes |-> <<>>,
     value |-> "", size |-> Zero]

\* What a call of Load or NumpySave leaves in `last`.
CallOf(op, path, out) ==
    [NoCall EXCEPT !.op = op, !.path = path, !.thrown = out.thrown,
                   !.undefined = out.undefined, !.fp = out.fp,
                   !.stdio = out.stdio, !.returned = out.returned,
                   !.members = out.members, !.buffer = out.buffer]

InitCommon ==
    /\ ndebug \in BOOLEAN
    /\ written = NotWritten
    /\ arrs = [s \in Slots |-> NoObject]
    /\ heap = [h \in Slots |-> NoBuffer]
    /\ last = NoCall

Init ==
    /\ InitCommon
    /\ fs = [p \in Paths |-> NoFile]

(***************************************************************************)
(* The file codec: NumpySave, NumpyArray::Load, and the files others put   *)
(* at the path.                                                            *)
(***************************************************************************)
Clean(out) == out.thrown = "" /\ out.undefined = "" /\ out.returned

\* The calls NumpySave(path, data, shape, dtype) of the model, each with its
\* outcome (both outcomes, where the behaviour is undefined).
SaveCalls ==
    {[path |-> path, shape |-> shape, dtype |-> dtype,
      data |-> DataOf(shape, dtype),
      out |-> SaveOutcome(Writable(path), DataOf(shape, dtype), shape, dtype,
                          crash)] :
        path \in {ThePath},
        shape \in {s \in SaveShapes : \A d \in AllDtypes : Holdable(s, d)},
        dtype \in AllDtypes,
        crash \in BOOLEAN}
    \cup
    {[path |-> path, shape |-> <<SizeT(2), SizeT(3)>>, dtype |-> dtype,
      data |-> DataOf(<<SizeT(2), SizeT(3)>>, dtype),
      out |-> SaveOutcome(Writable(path), DataOf(<<SizeT(2), SizeT(3)>>, dtype),
                          <<SizeT(2), SizeT(3)>>, dtype, crash)] :
        path \in Paths \ {ThePath}, dtype \in AllDtypes, crash \in BOOLEAN}

\* NumpySave(path, data, shape, dtype)
Save(call) ==
    /\ fs' = [fs EXCEPT ![call.path] = call.out.file]
    /\ written' =
        IF call.path # ThePath THEN written
        ELSE IF Clean(call.out)
        THEN [valid |-> TRUE, data |-> call.data,
              shape |-> call.shape, dtype |-> call.dtype]
        ELSE NotWritten
    /\ last' = CallOf("NumpySave", call.path, call.out)
    /\ UNCHANGED <<ndebug, arrs, heap>>

\* Another program leaves a file at the path.
PutFile(file) ==
    /\ fs' = [fs EXCEPT ![ThePath] = file]
    /\ written' = NotWritten
    /\ last' = [NoCall EXCEPT !.op = "PutFile", !.path = ThePath]
    /\ UNCHANGED <<ndebug, arrs, heap>>

\* NumpyArray::Load(path), the array it returns dropped by the caller.
Load(path, crash) ==
    /\ last' = CallOf("Load", path, LoadOutcome(fs[path], ndebug, crash))
    /\ UNCHANGED <<ndebug, fs, written, arrs, heap>>

Next ==
    \/ \E call \in SaveCalls : Save(call)
    \/ \E file \in ForeignFiles : PutFile(file)
    \/ \E path \in Paths, crash \in BOOLEAN : Load(path, crash)

Spec == Init /\ [][Next]_vars

(***************************************************************************)
(* The header codec and the element-type mapping, called on their own:     *)
(* they keep no state, so a behaviour is one call.                         *)
(***************************************************************************)
CallCreateNumpyHeader(shape, dtype) ==
    LET header == CreateNumpyHeader(shape, dtype)
    IN  /\ last = NoCall
        /\ last' = [NoCall EXCEPT !.op = "CreateNumpyHeader",
                                  !.thrown = header.thrown,
                                  !.returned = header.thrown = "",
                                  !.dtype = dtype,
                                  !.bytes = header.bytes]
        /\ UNCHANGED <<ndebug, fs, written, arrs, heap>>

CallDtypeToChar(dtype) ==
    LET c == DtypeToChar(dtype)
        failed == c = E_UnsupportedDtype
    IN  /\ last = NoCall
        /\ last' = [NoCall EXCEPT !.op = "DtypeToChar",
                                  !.thrown = IF failed THEN c ELSE "",
                                  !.returned = ~failed,
                                  !.dtype = dtype,
                                  !.value = IF failed THEN "" ELSE c]
        /\ UNCHANGED <<ndebug, fs, written, arrs, heap>>

\* GetDtype() of a NumpyArray just constructed with this type and word size.
CallGetDtype(type, word_size) ==
    LET a == NumpyArray(<<>>, type, word_size, FALSE)
        d == GetDtype(a.members.type_, a.members.word_size_)
        failed == d = E_UnsupportedNumpyType
    IN  /\ last = NoCall
        /\ last' = [NoCall EXCEPT !.op = "GetDtype",
                                  !.thrown = IF failed THEN d ELSE "",
                                  !.returned = ~failed,
                                  !.type = type,
                                  !.word_size = word_size,
                                  !.value = IF failed THEN "" ELSE d]
        /\ UNCHANGED <<ndebug, fs, written, arrs, heap>>

\* The element type of the array that the code and byte size CreateNumpyHeader
\* writes for dtype give back.
CallThereAndBack(dtype) ==
    LET c == DtypeToChar(dtype)
        a == NumpyArray(<<>>, c, SizeT(ByteSize(dtype)), FALSE)
        d == GetDtype(a.members.type_, a.members.word_size_)
        failed == c = E_UnsupportedDtype \/ d = E_UnsupportedNumpyType
    IN  /\ last = NoCall
        /\ last' = [NoCall EXCEPT !.op = "ThereAndBack",
                                  !.thrown = IF c = E_UnsupportedDtype THEN c
                                             ELSE IF failed THEN d ELSE "",
                                  !.returned = ~failed,
                                  !.dtype = dtype,
                                  !.value = IF failed THEN "" ELSE d]
        /\ UNCHANGED <<ndebug, fs, written, arrs, heap>>

NextCodec ==
    \/ \E shape \in Shapes, dtype \in AllDtypes :
          CallCreateNumpyHeader(shape, dtype)
    \/ \E dtype \in AllDtypes : CallDtypeToChar(dtype)
    \/ \E type \in TypeChars, word_size \in WordSizes :
          CallGetDtype(type, word_size)
    \/ \E dtype \in AllDtypes : CallThereAndBack(dtype)

SpecCodec == Init /\ [][NextCodec]_vars

(***************************************************************************)
(* NumpyArray objects: the callers' arrays in `arrs`, the vectors their     *)
(* data_holder own in `heap` (0 is the null data_holder).                  *)
(***************************************************************************)
ArrayShapes ==
    {shape \in {<<>>, <<SizeT(2), SizeT(3)>>, <<Pow2(31), Pow2(31)>>} :
        Len(shape) <= MaxRank}

ArrayWordSizes == {SizeT(4), SizeT(8)}

WriteByte == 205

\* The files NumpyArray::Load finds at the path.
ArrayFiles == {File(h, SizeT(FullLen), DataByte) : h \in SoundHeads}

InitArray ==
    /\ InitCommon
    /\ \E file \in ArrayFiles :
          fs = [p \in Paths |-> IF p = ThePath THEN file ELSE NoFile]

\* The vectors some live array holds.
Held == {arrs[s].data_holder : s \in {t \in Slots : arrs[t].live}}

FreeCells == {h \in Slots : h \notin Held}

\* The object at `slot` becomes one with these members, owning a new vector.
Place(slot, members, buffer) ==
    LET h == CHOOSE c \in FreeCells : \A d \in FreeCells : c <= d
    IN  /\ arrs' = [arrs EXCEPT ![slot] = [live |-> TRUE, members |-> members,
                                           data_holder |-> h]]
        /\ heap' = [heap EXCEPT ![h] = buffer]

\* NumpyArray a(shape, type, word_size, fortran_order);
Construct(slot, shape, type, word_size, fortran_order) ==
    LET a == NumpyArray(shape, type, word_size, fortran_order)
    IN  /\ ~arrs[slot].live
        /\ IF a.thrown = ""
           THEN Place(slot, a.members, a.buffer)
           ELSE UNCHANGED <<arrs, heap>>
        /\ last' = [NoCall EXCEPT !.op = "NumpyArray", !.slot = slot,
                                  !.thrown = a.thrown,
                                  !.returned = a.thrown = ""]
        /\ UNCHANGED <<ndebug, fs, written>>

\* NumpyArray a;
DefaultConstruct(slot) ==
    /\ ~arrs[slot].live
    /\ arrs' = [arrs EXCEPT ![slot] = [live |-> TRUE,
                                       members |-> DefaultMembers,
                                       data_holder |-> 0]]
    /\ last' = [NoCall EXCEPT !.op = "NumpyArray()", !.slot = slot,
                              !.returned = TRUE]
    /\ UNCHANGED <<ndebug, fs, written, heap>>

\* NumpyArray b(a); the copy shares the vector of a.
CopyConstruct(from, to) ==
    /\ arrs[from].live
    /\ ~arrs[to].live
    /\ arrs' = [arrs EXCEPT ![to] = arrs[from]]
    /\ last' = [NoCall EXCEPT !.op = "NumpyArray(const&)", !.slot = to,
                              !.returned = TRUE]
    /\ UNCHANGED <<ndebug, fs, written, heap>>

\* ~NumpyArray(): the vector goes with its last holder.
Destroy(slot) ==
    LET h == arrs[slot].data_holder
        shared == \E t \in Slots \ {slot} :
                     arrs[t].live /\ arrs[t].data_holder = h
    IN  /\ arrs[slot].live
        /\ arrs' = [arrs EXCEPT ![slot] = NoObject]
        /\ heap' = IF h = 0 \/ shared THEN heap
                   ELSE [heap EXCEPT ![h] = NoBuffer]
        /\ last' = [NoCall EXCEPT !.op = "~NumpyArray", !.slot = slot,
                                  !.returned = TRUE]
        /\ UNCHANGED <<ndebug, fs, written>>

\* NumpyArray a = NumpyArray::Load(path);
LoadInto(slot) ==
    /\ ~arrs[slot].live
    /\ \E out \in {LoadOutcome(fs[ThePath], ndebug, crash) :
                       crash \in BOOLEAN} :
          /\ IF out.returned
             THEN Place(slot, out.members, out.buffer)
             ELSE UNCHANGED <<arrs, heap>>
          /\ last' = [CallOf("Load", ThePath, out) EXCEPT !.slot = slot]
    /\ UNCHANGED <<ndebug, fs, written>>

\* a.GetDataPtr<T>() and a write of the whole array through it.  On a null
\* data_holder and on an empty vector the behaviour is undefined: the process
\* dies there (crash) or goes on with a pointer to nothing.
WriteData(slot, crash) ==
    LET h == arrs[slot].data_holder
    IN  /\ arrs[slot].live
        /\ IF h = 0
           THEN /\ last' = [NoCall EXCEPT !.op = "GetDataPtr", !.slot = slot,
                                          !.undefined = U_NullHolder,
                                          !.returned = ~crash]
                /\ UNCHANGED heap
           ELSE IF IsZero(heap[h].size)
           THEN /\ last' = [NoCall EXCEPT !.op = "GetDataPtr", !.slot = slot,
                                          !.undefined = U_EmptyIndex,
                                          !.returned = ~crash]
                /\ UNCHANGED heap
           ELSE /\ ~crash
                /\ last' = [NoCall EXCEPT !.op = "GetDataPtr", !.slot = slot,
                                          !.returned = TRUE]
                /\ heap' = [heap EXCEPT ![h].nfill = heap[h].size,
                                        ![h].fill = WriteByte]
        /\ UNCHANGED <<ndebug, fs, written, arrs>>

\* a.NumBytes().  On a null data_holder the behaviour is undefined: the
\* process dies there (crash) or the call returns whatever it read.
CallNumBytes(slot, crash, read) ==
    LET h == arrs[slot].data_holder
    IN  /\ arrs[slot].live
        /\ IF h = 0
           THEN last' = [NoCall EXCEPT !.op = "NumBytes", !.slot = slot,
                                       !.undefined = U_NullHolder,
                                       !.returned = ~crash,
                                       !.size = IF crash THEN Zero ELSE read]
           ELSE /\ ~crash
                /\ read = Zero
                /\ last' = [NoCall EXCEPT !.op = "NumBytes", !.slot = slot,
                                          !.returned = TRUE,
                                          !.size = heap[h].size]
        /\ UNCHANGED <<ndebug, fs, written, arrs, heap>>

\* a.GetDtype().  The default constructor leaves type_ uninitialized: the
\* call then reads whatever char is there.
CallGetDtypeOf(slot, found) ==
    LET m == arrs[slot].members
        uninit == m.type_ = Indeterminate
        d == GetDtype(IF uninit THEN found ELSE m.type_, m.word_size_)
        failed == d = E_UnsupportedNumpyType
    IN  /\ arrs[slot].live
        /\ uninit \/ found = m.type_
        /\ last' = [NoCall EXCEPT !.op = "GetDtype", !.slot = slot,
                                  !.undefined = IF uninit THEN U_TypeUninit
                                                ELSE "",
                                  !.thrown = IF failed THEN d ELSE "",
                                  !.returned = ~failed,
                                  !.type = IF uninit THEN found ELSE m.type_,
                                  !.word_size = m.word_size_,
                                  !.value = IF failed THEN "" ELSE d]
        /\ UNCHANGED <<ndebug, fs, written, arrs, heap>>

NextArray ==
    \/ \E slot \in Slots, shape \in ArrayShapes, word_size \in ArrayWordSizes :
          Construct(slot, shape, "f", word_size, FALSE)
    \/ \E slot \in Slots : DefaultConstruct(slot)
    \/ \E from \in Slots, to \in Slots : CopyConstruct(from, to)
    \/ \E slot \in Slots : Destroy(slot)
    \/ \E slot \in Slots : LoadInto(slot)
    \/ \E slot \in Slots, crash \in BOOLEAN : WriteData(slot, crash)
    \/ \E slot \in Slots, crash \in BOOLEAN, read \in {Zero, SizeT(Garbage)} :
          CallNumBytes(slot, crash, read)
    \/ \E slot \in Slots, found \in TypeChars : CallGetDtypeOf(slot, found)

SpecArray == InitArray /\ [][NextArray]_vars

(***************************************************************************)
(* Properties.                                                             *)
(***************************************************************************)
\* The file the last Load read (Load leaves the file system as it is).
LoadedFile == fs[last.path]

\* The line ParseNumpyHeader reads from a file that has one.
LineOf(file) == FGets(SubSeq(file.head, HeaderReadLen + 1, Len(file.head)))

HasLine(file) ==
    /\ file.exists
    /\ Len(file.head) > HeaderReadLen
    /\ LineOf(file)[Len(LineOf(file))] = "\n"

\* The bytes of a buffer are those of the caller's data.
SameBytes(buffer, data) ==
    /\ buffer.size = data.len
    /\ IsZero(data.len) \/ (buffer.nfill = buffer.size /\ buffer.fill = data.fill)

\* C1 (round trip): a Load of the file a NumpySave wrote returns an array of
\* the saved shape and element type, in C order, holding the saved bytes.
C1_RoundTrip ==
    (last.op = "Load" /\ last.path = ThePath /\ written.valid) =>
        /\ last.returned /\ last.thrown = ""
        /\ last.members.shape_ = written.shape
        /\ GetDtype(last.members.type_, last.members.word_size_)
               = written.dtype
        /\ last.members.fortran_order_ = FALSE
        /\ SameBytes(last.buffer, written.data)

\* A NumpySave of a (0, 2147483648) array went well and the Load of its file
\* threw out of std::stoi.
C1_Witness ==
    /\ last.op = "Load"
    /\ last.path = ThePath
    /\ written.valid
    /\ written.shape = <<SizeT(0), Pow2(31)>>
    /\ last.thrown = E_StoiRange

\* The dict of a header: what follows its 10-byte preamble.
DictOf(bytes) == SubSeq(bytes, PreambleLen + 1, Len(bytes))

RECURSIVE TrailingSpaces(_, _)
TrailingSpaces(dict, i) ==
    IF i >= 1 /\ dict[i] = " " THEN 1 + TrailingSpaces(dict, i - 1) ELSE 0

\* The spaces between the closing brace of the dict and its newline.
PaddingOf(dict) == TrailingSpaces(dict, Len(dict) - 1)

\* C2 (header padding): the dict CreateNumpyHeader writes makes 10 + its
\* length a multiple of 16, is padded by 0..15 spaces, ends with a newline
\* and holds no other newline.
C2_HeaderPadding ==
    (last.op = "CreateNumpyHeader" /\ last.returned) =>
        LET dict == DictOf(last.bytes)
        IN  /\ Len(last.bytes) > PreambleLen
            /\ (PreambleLen + Len(dict)) % PadModulus = 0
            /\ dict[Len(dict)] = "\n"
            /\ \A i \in 1..(Len(dict) - 1) : dict[i] # "\n"
            /\ PaddingOf(dict) \in 0..(PadModulus - 1)
            /\ dict[Len(dict) - 1 - PaddingOf(dict)] = "}"

\* A header was written that needed no padding space.
C2_Witness ==
    /\ last.op = "CreateNumpyHeader"
    /\ last.returned
    /\ PaddingOf(DictOf(last.bytes)) = 0
    /\ (PreambleLen + Len(DictOf(last.bytes))) % PadModulus = 0

\* C3 (file-handle release): Load and NumpySave leave no handle open that
\* they opened, however they end.
C3_HandleReleased ==
    last.op \in {"Load", "NumpySave"} => last.fp # "open"

\* A Load failed at the read of the 11 first bytes and left the file open.
C3_Witness ==
    /\ last.op = "Load"
    /\ last.thrown = E_HeaderFread
    /\ last.fp = "open"

\* The payload bytes the header of a file declares, without wrapping.
DeclaredBytes(file) ==
    LET h == ParseNumpyHeader(file.head, TRUE)
    IN  Mul(MathProduct(h.shape), h.word_size, MathBytes)

WellFormed(file) ==
    LET h == ParseNumpyHeader(file.head, FALSE)
    IN  HasLine(file) /\ h.thrown = "" /\ h.undefined = ""

\* C4 (truncation): Load of a file with a well-formed header and fewer
\* payload bytes than it declares fails with the failed-fread error and
\* returns no array.
C4_TruncationDetected ==
    (/\ last.op = "Load"
     /\ WellFormed(LoadedFile)
     /\ Less(LoadedFile.len, DeclaredBytes(LoadedFile))) =>
        ~last.returned /\ last.thrown = E_PayloadFread

\* A Load returned an array for a file shorter than its header declares.
C4_Witness ==
    /\ last.op = "Load"
    /\ WellFormed(LoadedFile)
    /\ Less(LoadedFile.len, DeclaredBytes(LoadedFile))
    /\ last.returned

K_descr_value ==
    <<"d", "e", "s", "c", "r", "'", ":", " ", "'">>

\* The character right after "descr': '", in a line that has one.
HasMarker(line) ==
    /\ Find(line, K_descr_value) # NPos
    /\ Find(line, K_descr_value) + Len(K_descr_value) < Len(line)

MarkerOf(line) == CharAt(line, Find(line, K_descr_value) + Len(K_descr_value))

\* C5 (endianness): Load of a file whose header is sound but for a byte-order
\* marker other than < and | fails on the byte order and returns no array.
C5_EndiannessRejected ==
    (/\ last.op = "Load"
     /\ HasLine(LoadedFile)
     /\ HasMarker(LineOf(LoadedFile))
     /\ MarkerOf(LineOf(LoadedFile)) \notin {"<", "|"}
     /\ Find(LineOf(LoadedFile), K_fortran_order) # NPos
     /\ Find(LineOf(LoadedFile), <<"(">>) # NPos
     /\ Find(LineOf(LoadedFile), <<"(">>) < Find(LineOf(LoadedFile), <<")">>)) =>
        ~last.returned /\ last.thrown = A_LittleEndian

\* A Load returned an array for a header marked big-endian.
C5_Witness ==
    /\ last.op = "Load"
    /\ HasLine(LoadedFile)
    /\ HasMarker(LineOf(LoadedFile))
    /\ MarkerOf(LineOf(LoadedFile)) = ">"
    /\ last.returned

\* The errors that name what a header line lacks.
MissingIn(line) ==
    (IF Find(line, K_fortran_order) = NPos THEN {E_NoFortranOrder} ELSE {})
    \cup
    (IF \/ Find(line, <<"(">>) = NPos
        \/ Find(line, <<")">>) = NPos
        \/ Find(line, <<")">>) < Find(line, <<"(">>)
     THEN {E_NoParens} ELSE {})
    \cup
    (IF Find(line, K_descr) = NPos THEN {E_NoDescr} ELSE {})

\* C6 (missing keyword): Load of a file whose header line lacks
\* fortran_order, balanced parentheses or descr fails with the error naming
\* a missing field and returns no array.
C6_MissingKeywordDetected ==
    (/\ last.op = "Load"
     /\ HasLine(LoadedFile)
     /\ MissingIn(LineOf(LoadedFile)) # {}) =>
        ~last.returned /\ last.thrown \in MissingIn(LineOf(LoadedFile))

\* A Load returned an array for a header whose ) comes before its (.
C6_Witness ==
    /\ last.op = "Load"
    /\ HasLine(LoadedFile)
    /\ Find(LineOf(LoadedFile), <<")">>) # NPos
    /\ Find(LineOf(LoadedFile), <<")">>) < Find(LineOf(LoadedFile), <<"(">>)
    /\ last.returned

\* The element-type table of the specification.
NumpyTable ==
    {<<"Float32", "f", 4>>, <<"Float64", "f", 8>>, <<"Int32", "i", 4>>,
     <<"Int64", "i", 8>>, <<"UInt8", "u", 1>>, <<"UInt16", "u", 2>>,
     <<"Bool", "b", 1>>}

RowsOfCode(type, word_size) ==
    {row \in NumpyTable :
        row[2] = type /\ (type = "b" \/ SizeT(row[3]) = word_size)}

\* C7 (mapping closure): DtypeToChar gives each table type its code and
\* fails for every other type; the code and byte size of a table type map
\* back to it; GetDtype gives each table row its type (any word size for b)
\* and fails for every other pair.
C7_MappingClosure ==
    /\ last.op = "DtypeToChar" =>
         IF last.dtype \in {row[1] : row \in NumpyTable}
         THEN /\ last.returned
              /\ \E row \in NumpyTable :
                    row[1] = last.dtype /\ row[2] = last.value
         ELSE ~last.returned /\ last.thrown = E_UnsupportedDtype
    /\ last.op = "ThereAndBack" =>
         IF last.dtype \in {row[1] : row \in NumpyTable}
         THEN last.returned /\ last.value = last.dtype
         ELSE ~last.returned /\ last.thrown = E_UnsupportedDtype
    /\ last.op = "GetDtype" =>
         IF RowsOfCode(last.type, last.word_size) # {}
         THEN /\ last.returned
              /\ \A row \in RowsOfCode(last.type, last.word_size) :
                    last.value = row[1]
         ELSE ~last.returned /\ last.thrown = E_UnsupportedNumpyType

\* GetDtype was asked for ('f', 2) and failed.
C7_Witness ==
    /\ last.op = "GetDtype"
    /\ last.type = "f"
    /\ last.word_size = SizeT(2)
    /\ last.thrown = E_UnsupportedNumpyType

\* C9 (open failure): a Load or a NumpySave whose fopen failed fails with the
\* open error, and makes no stdio call on the null handle.
C9_OpenFailureHandled ==
    (last.op \in {"Load", "NumpySave"} /\ last.fp = "null") =>
        /\ ~last.returned
        /\ last.thrown = E_UnableToOpen
        /\ last.undefined = ""
        /\ last.stdio = 0

\* A NumpySave went on to the stdio calls with the null handle of a path
\* that did not open.
C9_Witness ==
    /\ last.op = "NumpySave"
    /\ last.fp = "null"
    /\ last.undefined = U_NullFile
    /\ last.stdio > 0

\* C10 (payload size): the payload a NumpySave wrote has product(shape) *
\* byte size bytes, the product not wrapped, which is the size Load derives
\* from the header written.
C10_SavePayloadSize ==
    (last.op = "NumpySave" /\ last.path = ThePath /\ written.valid) =>
        LET h == ParseNumpyHeader(fs[ThePath].head, ndebug)
        IN  /\ SameValue(fs[ThePath].len, DataLen(written.shape, written.dtype))
            /\ fs[ThePath].len = MulSizeT(NumElements(h.shape), h.word_size)

\* A NumpySave of a (65536, 65536) array went well and wrote no payload.
C10_Witness ==
    /\ last.op = "NumpySave"
    /\ written.valid
    /\ written.shape = <<Pow2(16), Pow2(16)>>
    /\ IsZero(fs[ThePath].len)

\* The bytes the shape and word size of an array stand for, not wrapped.
ExpectedBytes(members) ==
    Mul(MathProduct(members.shape_), members.word_size_, MathBytes)

\* C8 (buffer size): every array there is, however made, has a buffer of
\* product(shape) * word_size bytes; NumBytes is defined on it and returns
\* that length; a default-constructed array has a buffer of length 0.
C8_BufferSizeInvariant ==
    /\ \A s \in Slots :
          arrs[s].live =>
              /\ arrs[s].data_holder # 0
              /\ SameValue(heap[arrs[s].data_holder].size,
                           ExpectedBytes(arrs[s].members))
    /\ last.op = "NumBytes" =>
          /\ last.undefined = ""
          /\ last.returned
          /\ SameValue(last.size, ExpectedBytes(arrs[last.slot].members))

\* NumBytes was called on a default-constructed array, whose data_holder is
\* null.
C8_Witness ==
    /\ last.op = "NumBytes"
    /\ arrs[last.slot].live
    /\ arrs[last.slot].data_holder = 0
    /\ last.undefined = U_NullHolder

=============================================================================
